---- MODULE Spec2Model ----
(***************************************************************************)
(* Model of the Electron main process of acumatica-dev-tools               *)
(* (src/main/main.ts): the SQLite store initialisation performed at module *)
(* load, the single-instance lock, the window / tray / quit handlers, the  *)
(* startup timeout and the node-cron schedule armed by StartTasks, and the *)
(* pipeline runs (GetInstances) they start.                                *)
(*                                                                         *)
(* Time is counted in seconds of wall clock; it only moves in AdvanceTime, *)
(* which jumps to the next instant at which a timer is due.                *)
(***************************************************************************)
EXTENDS Integers, Sequences, FiniteSets, TLC

\* ------------------------------------------------------------- bounds
\* processes that may be launched against the same db.sqlite3 file
NumProcs == 2
\* GetInstances invocations followed in one behaviour
MaxRuns == 3
\* BrowserWindows created in one behaviour
MaxWindows == 2
\* records returned by one fetch
MaxFetch == 2

\* ---------------------------------------------------- program constants
\* setTimeout(..., 5000)
StartDelayMs == 5000
\* cron.schedule('*/15 * * * *', ...): minutes divisible by 15
CronMinutes == 15

Delay == StartDelayMs \div 1000
Period == CronMinutes * 60

\* wall-clock second (within a quarter of an hour) at which the process starts
StartOffsets == {0, 7, Period - Delay - 1, Period - 1}

Procs == 1..NumProcs
\* the process that holds the single-instance lock in the scheduler model
Main == 1

\* values a user may give the hostname setting
Hostnames == {"localhost", "devbox"}
\* identity keys and mutable attribute of a fetched instance record
InstanceIds == {"A", "B"}
Statuses == {"up", "down"}
Records == [id : InstanceIds, status : Statuses]

\* the row written by INSERT INTO settings (hostname, extractMsi)
\* VALUES ("localhost", 0)
DefaultSettings == [hostname |-> "localhost", extractMsi |-> 0]

VARIABLES
  \* ---- the db.sqlite3 file, shared by every process
  settings,       \* rows of the settings table, in insertion order
  instances,      \* rows of the instances table, in insertion order
  \* ---- per process: module load
  proc,           \* "off" | "running" | "exited"
  initPc,         \* position in the serialized store initialisation
  dbErr,          \* "none" | "open" | "schema": what failed in db set-up
  rowsSeen,       \* rows.length seen by the settings callback (-1: none yet)
  gotTheLock,     \* result of app.requestSingleInstanceLock()
  inserts,        \* number of default rows inserted so far (history)
  \* ---- the lock-holding process: app, window and timers
  isDevelopment,  \* createWindow awaits installExtensions first
  isDarwin,       \* process.platform === 'darwin'
  ready,          \* app.whenReady() resolved and its handler ran
  creating,       \* createWindow calls still awaiting installExtensions
  windows,        \* ids of the BrowserWindows that exist
  winCount,       \* BrowserWindows created so far
  mainWindow,     \* id of the window in the module variable, 0 for null
  hidden,         \* the window in mainWindow is hidden
  beforeQuitOn,   \* createWindow registered the 'before-quit' handler
  isQuiting,      \* set by the 'before-quit' handler
  quitting,       \* app.quit() is closing the windows
  timeout,        \* "none" | "pending" | "fired": the startup setTimeout
  timeoutAt,      \* instant at which the startup timeout is due
  schedules,      \* number of cron schedules registered
  capturedWin,    \* window captured by the StartTasks closure
  nextTick,       \* instant of the next cron match
  startTasksCalls,\* number of times StartTasks was entered
  now,            \* wall clock, seconds
  startedAt,      \* wall clock at process start
  runs,           \* pipeline runs in flight
  runsStarted,    \* GetInstances invocations so far
  fetchLimit,     \* most records the remote host returns to one fetch
  triggers,       \* history: <<kind, instant>> of every GetInstances call
  lastRec,        \* the record reconciled last (NoRecord: none yet)
  lastClass,      \* how it was classified: added, updated or unchanged
  lastWrote,      \* whether reconciling it wrote to the instances table
  sameAsPrev      \* history: it was also the record reconciled before it

storeVars == <<settings, instances>>
procVars == <<proc, initPc, dbErr, rowsSeen, gotTheLock, inserts>>
appVars == <<isDevelopment, isDarwin, ready, creating, windows, winCount,
             mainWindow, hidden, beforeQuitOn, isQuiting, quitting>>
timerVars == <<timeout, timeoutAt, schedules, capturedWin, nextTick,
               startTasksCalls, now, startedAt>>
reconVars == <<lastRec, lastClass, lastWrote, sameAsPrev>>
runVars == <<runs, runsStarted, fetchLimit, triggers, reconVars>>
vars == <<storeVars, procVars, appVars, timerVars, runVars>>

\* ============================================================ the store
\* lines 84-117, executed by every process when the module is loaded

lockHolder == {p \in Procs : proc[p] = "running" /\ gotTheLock[p]}

\* the process starts: module load queues the store initialisation and asks
\* for the single-instance lock (line 191)
Launch(p) ==
  /\ proc[p] = "off"
  /\ proc' = [proc EXCEPT ![p] = "running"]
  /\ initPc' = [initPc EXCEPT ![p] = "open"]
  /\ gotTheLock' = [gotTheLock EXCEPT ![p] = (lockHolder = {})]
  /\ UNCHANGED <<storeVars, dbErr, rowsSeen, inserts, appVars, timerVars,
                 runVars>>

\* new sqlite.Database('./db.sqlite3', cb): an error is only logged
DbOpen(p) ==
  /\ proc[p] = "running" /\ initPc[p] = "open"
  /\ \E err \in BOOLEAN :
       dbErr' = [dbErr EXCEPT ![p] = IF err THEN "open" ELSE "none"]
  /\ initPc' = [initPc EXCEPT ![p] = "schema"]
  /\ UNCHANGED <<storeVars, proc, rowsSeen, gotTheLock, inserts, appVars,
                 timerVars, runVars>>

\* the two CREATE TABLE statements, run without a callback
CreateSchema(p) ==
  /\ proc[p] = "running" /\ initPc[p] = "schema"
  /\ \E err \in BOOLEAN :
       dbErr' = [dbErr EXCEPT ![p] =
                   IF dbErr[p] = "open" THEN "open"
                   ELSE IF err THEN "schema" ELSE "none"]
  /\ initPc' = [initPc EXCEPT ![p] = "select"]
  /\ UNCHANGED <<storeVars, proc, rowsSeen, gotTheLock, inserts, appVars,
                 timerVars, runVars>>

\* position after the settings callback that received `err` and `n` rows
\* (n < 0: rows is undefined, so rows.length throws)
SettingsCallbackPc(n) ==
  IF n < 0 THEN "threw" ELSE IF n = 0 THEN "insert" ELSE "done"

\* db.all('SELECT * FROM settings', [], (err, rows) => ...): the query and
\* its callback, which queues the INSERT when it saw no row
SelectSettings(p) ==
  /\ proc[p] = "running" /\ initPc[p] = "select"
  /\ \E qerr \in BOOLEAN :
       LET err == qerr \/ dbErr[p] # "none"
           n == IF err THEN -1 ELSE Len(settings)
       IN /\ rowsSeen' = [rowsSeen EXCEPT ![p] = n]
          /\ initPc' = [initPc EXCEPT ![p] = SettingsCallbackPc(n)]
  /\ UNCHANGED <<storeVars, proc, dbErr, gotTheLock, inserts, appVars,
                 timerVars, runVars>>

\* the queued INSERT INTO settings ... VALUES ("localhost", 0) runs
InsertDefaults(p) ==
  /\ proc[p] = "running" /\ initPc[p] = "insert"
  /\ settings' = Append(settings, DefaultSettings)
  /\ inserts' = inserts + 1
  /\ initPc' = [initPc EXCEPT ![p] = "done"]
  /\ UNCHANGED <<instances, proc, dbErr, rowsSeen, gotTheLock, appVars,
                 timerVars, runVars>>

\* a process without the lock calls app.quit() (line 202) and ends, whatever
\* the progress of its queued store statements; the lock holder ends when
\* the user quits it
ProcExit(p) ==
  /\ proc[p] = "running"
  /\ proc' = [proc EXCEPT ![p] = "exited"]
  /\ UNCHANGED <<storeVars, initPc, dbErr, rowsSeen, gotTheLock, inserts,
                 appVars, timerVars, runVars>>

\* the user changes the hostname through the settings UI of a running,
\* initialised lock holder
UpdateSettings(p) ==
  /\ proc[p] = "running" /\ gotTheLock[p] /\ initPc[p] = "done"
  /\ Len(settings) > 0
  /\ \E h \in Hostnames :
       /\ h # settings[1].hostname
       /\ settings' = [i \in 1..Len(settings) |->
                         [settings[i] EXCEPT !.hostname = h]]
  /\ UNCHANGED <<instances, procVars, appVars, timerVars, runVars>>

\* no record has been reconciled yet
NoRecord == [id |-> "none", status |-> "none"]

InitRecon ==
  /\ lastRec = NoRecord
  /\ lastClass = "none"
  /\ lastWrote = FALSE
  /\ sameAsPrev = FALSE

InitCommon ==
  /\ InitRecon
  /\ settings = <<>>
  /\ instances = <<>>
  /\ dbErr = [p \in Procs |-> "none"]
  /\ rowsSeen = [p \in Procs |-> -1]
  /\ inserts = 0
  /\ ready = FALSE
  /\ creating = 0
  /\ windows = {}
  /\ winCount = 0
  /\ mainWindow = 0
  /\ hidden = FALSE
  /\ beforeQuitOn = FALSE
  /\ isQuiting = FALSE
  /\ quitting = FALSE
  /\ timeout = "none"
  /\ timeoutAt = 0
  /\ schedules = 0
  /\ capturedWin = 0
  /\ nextTick = 0
  /\ startTasksCalls = 0
  /\ runs = {}
  /\ runsStarted = 0
  /\ triggers = <<>>

\* ---- launches of the application against one db.sqlite3 file
InitStore ==
  /\ InitCommon
  /\ proc = [p \in Procs |-> "off"]
  /\ initPc = [p \in Procs |-> "off"]
  /\ gotTheLock = [p \in Procs |-> FALSE]
  /\ isDevelopment = FALSE
  /\ isDarwin = FALSE
  /\ now = 0
  /\ startedAt = 0
  /\ fetchLimit = 0

NextStore ==
  \E p \in Procs :
    \/ Launch(p)
    \/ DbOpen(p)
    \/ CreateSchema(p)
    \/ SelectSettings(p)
    \/ InsertDefaults(p)
    \/ ProcExit(p)
    \/ UpdateSettings(p)

SpecStore == InitStore /\ [][NextStore]_vars

\* ======================================================== the pipeline
\* GetInstances (./actions/getInstances) and the instances table

\* faulty variant of NextBoundary: a period counted from the registration
NextBoundary_FromNow(t) == t + Period

\* first instant after t at which the cron expression '*/15 * * * *' matches
NextBoundary(t) == (t \div Period + 1) * Period

\* faulty variant of Upsert: the record is inserted without a look-up
Upsert_AlwaysInsert(rows, rec) == Append(rows, rec)

\* upsertInstance: update the rows holding the record's identity key, or
\* insert the record when no row holds it
Upsert(rows, rec) ==
  IF \E i \in 1..Len(rows) : rows[i].id = rec.id
  THEN [i \in 1..Len(rows) |->
          IF rows[i].id = rec.id THEN rec ELSE rows[i]]
  ELSE Append(rows, rec)

\* what a call of GetInstances may do before it returns: throw, or return
\* with the run in flight and n fetched records to reconcile (n = 0 also
\* stands for a fetch that failed: the run only notifies)
Outcomes ==
  {[throws |-> TRUE, left |-> 0]}
  \cup {[throws |-> FALSE, left |-> n] : n \in 0..fetchLimit}

\* the run a call GetInstances(win, db) leaves in flight
NewRun(win, o) ==
  [id |-> runsStarted + 1, win |-> win, left |-> o.left]

\* GetInstances(win, db), called for the trigger `kind`, with outcome o
GetInstances(kind, win, o) ==
  /\ runsStarted' = runsStarted + 1
  /\ triggers' = Append(triggers, <<kind, now>>)
  /\ UNCHANGED <<fetchLimit, reconVars>>
  /\ runs' = IF o.throws THEN runs ELSE runs \cup {NewRun(win, o)}

\* faulty variant of Classify: a stored record is always reported updated
Classify_NeverUnchanged(rows, rec) ==
  IF \E i \in 1..Len(rows) : rows[i].id = rec.id
  THEN "updated" ELSE "added"

\* reconcile, the look-up: added when no row holds the record's identity
\* key, updated when a row holds it with another attribute, else unchanged
Classify(rows, rec) ==
  IF \A i \in 1..Len(rows) : rows[i].id # rec.id THEN "added"
  ELSE IF \E i \in 1..Len(rows) : rows[i].id = rec.id /\ rows[i] # rec
       THEN "updated"
       ELSE "unchanged"

\* reconcile of one record: its class, the table afterwards, and whether
\* the table was written (an unchanged record is not upserted)
Reconcile(rows, rec) ==
  LET class == Classify(rows, rec)
  IN [class |-> class,
      wrote |-> class # "unchanged",
      rows |-> IF class = "unchanged" THEN rows ELSE Upsert(rows, rec)]

\* the instances table after one run reconciled the fetched records `seq`
RECURSIVE ReconcileAll(_, _)
ReconcileAll(rows, seq) ==
  IF seq = <<>> THEN rows
  ELSE ReconcileAll(Reconcile(rows, Head(seq)).rows, Tail(seq))

\* what one fetch may return
FetchResults == UNION {[1..n -> Records] : n \in 0..MaxFetch}

\* the run reconciles its next fetched record against the instances table
RunStep ==
  /\ proc[Main] = "running"
  /\ \E r \in runs :
       /\ r.left > 0
       /\ \E rec \in Records :
            LET res == Reconcile(instances, rec)
            IN /\ instances' = res.rows
               /\ lastRec' = rec
               /\ lastClass' = res.class
               /\ lastWrote' = res.wrote
               /\ sameAsPrev' = (rec = lastRec)
       /\ runs' = (runs \ {r}) \cup {[r EXCEPT !.left = r.left - 1]}
  /\ UNCHANGED <<settings, procVars, appVars, timerVars, runsStarted,
                 fetchLimit, triggers>>

\* the run notifies the window of its change-set or error and ends
RunFinish ==
  /\ proc[Main] = "running"
  /\ \E r \in runs :
       /\ r.left = 0
       /\ runs' = runs \ {r}
  /\ UNCHANGED <<storeVars, procVars, appVars, timerVars, runsStarted,
                 fetchLimit, triggers, reconVars>>

\* ============================================================== the app

alive == proc[Main] = "running" /\ gotTheLock[Main]

\* app.quit(): 'before-quit' is emitted, then Electron closes the windows
BeforeQuitSets(q) == q \/ beforeQuitOn

\* createWindow, from `new BrowserWindow` on (lines 124-184)
CreateWindowBody ==
  /\ winCount' = winCount + 1
  /\ windows' = windows \cup {winCount + 1}
  /\ mainWindow' = winCount + 1
  /\ hidden' = TRUE
  /\ beforeQuitOn' = TRUE

\* createWindow(): in development it first awaits installExtensions
CreateWindowCall ==
  IF isDevelopment
  THEN /\ creating' = creating + 1
       /\ UNCHANGED <<windows, winCount, mainWindow, hidden, beforeQuitOn>>
  ELSE /\ CreateWindowBody
       /\ UNCHANGED creating

\* app.whenReady().then(...): tray, createWindow(), 'activate' handler and
\* the startup setTimeout (lines 212-241)
AppReady ==
  /\ alive /\ ~ready /\ ~quitting
  /\ ready' = TRUE
  /\ CreateWindowCall
  /\ timeout' = "pending"
  /\ timeoutAt' = now + Delay
  /\ UNCHANGED <<storeVars, procVars, isDevelopment, isDarwin, isQuiting,
                 quitting, schedules, capturedWin, nextTick, startTasksCalls,
                 now, startedAt, runVars>>

\* installExtensions resolved: the rest of createWindow runs
CreateWindowFinish ==
  /\ alive /\ creating > 0
  /\ creating' = creating - 1
  /\ CreateWindowBody
  /\ UNCHANGED <<storeVars, procVars, isDevelopment, isDarwin, ready,
                 isQuiting, quitting, timerVars, runVars>>

\* 'activate' (macOS dock icon): a window is created when mainWindow is null
Activate ==
  /\ alive /\ ready /\ isDarwin
  /\ winCount + creating < MaxWindows
  /\ IF mainWindow = 0
     THEN CreateWindowCall
     ELSE UNCHANGED <<creating, windows, winCount, mainWindow, hidden,
                      beforeQuitOn>>
  /\ UNCHANGED <<storeVars, procVars, isDevelopment, isDarwin, ready,
                 isQuiting, quitting, timerVars, runVars>>

\* 'second-instance': the existing window is restored and focused
SecondInstance ==
  /\ alive
  /\ UNCHANGED vars

\* 'ready-to-show' of a window, or a click on the tray icon: the window in
\* mainWindow, if any, is shown
ReadyToShow ==
  /\ alive /\ windows # {}
  /\ hidden' = IF mainWindow # 0 THEN FALSE ELSE hidden
  /\ UNCHANGED <<storeVars, procVars, isDevelopment, isDarwin, ready,
                 creating, windows, winCount, mainWindow, beforeQuitOn,
                 isQuiting, quitting, timerVars, runVars>>

TrayClick ==
  /\ alive /\ ready
  /\ hidden' = IF mainWindow # 0 THEN FALSE ELSE hidden
  /\ UNCHANGED <<storeVars, procVars, isDevelopment, isDarwin, ready,
                 creating, windows, winCount, mainWindow, beforeQuitOn,
                 isQuiting, quitting, timerVars, runVars>>

\* 'minimize' of a window: the window in mainWindow, if any, is hidden
Minimize ==
  /\ alive /\ windows # {}
  /\ hidden' = IF mainWindow # 0 THEN TRUE ELSE hidden
  /\ UNCHANGED <<storeVars, procVars, isDevelopment, isDarwin, ready,
                 creating, windows, winCount, mainWindow, beforeQuitOn,
                 isQuiting, quitting, timerVars, runVars>>

\* window w is gone: its 'closed' handler resets mainWindow, and when it was
\* the last window of a non-macOS app 'window-all-closed' calls app.quit()
Closed(w) ==
  /\ windows' = windows \ {w}
  /\ mainWindow' = 0
  /\ hidden' = FALSE
  /\ IF windows \ {w} = {} /\ ~isDarwin /\ ~quitting
     THEN /\ quitting' = TRUE
          /\ isQuiting' = BeforeQuitSets(isQuiting)
     ELSE UNCHANGED <<quitting, isQuiting>>

\* faulty variant of CloseWindow: the 'close' handler prevents nothing
CloseWindow_NoPrevent(w) ==
  /\ alive /\ w \in windows
  /\ Closed(w)
  /\ UNCHANGED <<storeVars, procVars, isDevelopment, isDarwin, ready,
                 creating, winCount, beforeQuitOn, timerVars, runVars>>

\* a close request on window w, by the user or by app.quit(): the 'close'
\* handler prevents it and hides the window unless isQuiting is set; a
\* prevented close cancels a quit in progress
CloseWindow(w) ==
  /\ alive /\ w \in windows
  /\ IF ~isQuiting
     THEN /\ hidden' = IF mainWindow # 0 THEN TRUE ELSE hidden
          /\ quitting' = FALSE
          /\ UNCHANGED <<windows, mainWindow, isQuiting>>
     ELSE Closed(w)
  /\ UNCHANGED <<storeVars, procVars, isDevelopment, isDarwin, ready,
                 creating, winCount, beforeQuitOn, timerVars, runVars>>

\* the user quits the app (menu, Cmd+Q): app.quit() emits 'before-quit'
BeforeQuit ==
  /\ alive /\ ~quitting
  /\ quitting' = TRUE
  /\ isQuiting' = BeforeQuitSets(isQuiting)
  /\ UNCHANGED <<storeVars, procVars, isDevelopment, isDarwin, ready,
                 creating, windows, winCount, mainWindow, hidden,
                 beforeQuitOn, timerVars, runVars>>

\* tray menu Quit: mainWindow?.destroy(); app.quit()
TrayQuit ==
  /\ alive /\ ready /\ ~quitting
  /\ windows' = windows \ {mainWindow}
  /\ mainWindow' = 0
  /\ hidden' = IF mainWindow # 0 THEN FALSE ELSE hidden
  /\ quitting' = TRUE
  /\ isQuiting' = BeforeQuitSets(isQuiting)
  /\ UNCHANGED <<storeVars, procVars, isDevelopment, isDarwin, ready,
                 creating, winCount, beforeQuitOn, timerVars, runVars>>

\* a page cancels the quit in its beforeunload handler: the windows stay
QuitCancelled ==
  /\ alive /\ quitting /\ windows # {}
  /\ quitting' = FALSE
  /\ UNCHANGED <<storeVars, procVars, isDevelopment, isDarwin, ready,
                 creating, windows, winCount, mainWindow, hidden,
                 beforeQuitOn, isQuiting, timerVars, runVars>>

\* every window is closed during a quit: the process ends
ProcessExit ==
  /\ alive /\ quitting /\ windows = {}
  /\ proc' = [proc EXCEPT ![Main] = "exited"]
  /\ UNCHANGED <<storeVars, initPc, dbErr, rowsSeen, gotTheLock, inserts,
                 appVars, timerVars, runVars>>

\* =========================================================== the timers

\* StartTasks(win) (lines 246-252): GetInstances is called, then the cron
\* schedule is registered; an exception thrown by the call leaves the
\* function before cron.schedule
StartTasks(win, o) ==
  /\ startTasksCalls' = startTasksCalls + 1
  /\ GetInstances("startup", win, o)
  /\ IF o.throws
     THEN UNCHANGED <<schedules, capturedWin, nextTick>>
     ELSE /\ schedules' = schedules + 1
          /\ capturedWin' = win
          /\ nextTick' = NextBoundary(now)

\* faulty variant of AfterTimeout: setInterval in place of setTimeout
AfterTimeout_Repeats == "pending"

\* state of the startup timer after its callback ran
AfterTimeout == "fired"

\* the callback of setTimeout(..., 5000) (lines 238-240)
StartupTimeout ==
  /\ alive /\ timeout = "pending" /\ now = timeoutAt
  /\ timeout' = AfterTimeout
  /\ IF mainWindow # 0
     THEN \E o \in Outcomes : StartTasks(mainWindow, o)
     ELSE UNCHANGED <<schedules, capturedWin, nextTick, startTasksCalls,
                      runVars>>
  /\ UNCHANGED <<storeVars, procVars, appVars, timeoutAt, now, startedAt>>

\* the cron callback (lines 249-251): node-cron catches what it throws
CronTick ==
  /\ alive /\ schedules > 0 /\ now = nextTick
  /\ runsStarted < MaxRuns
  /\ \E o \in Outcomes : GetInstances("tick", capturedWin, o)
  /\ nextTick' = NextBoundary(now)
  /\ UNCHANGED <<storeVars, procVars, appVars, timeout, timeoutAt,
                 schedules, capturedWin, startTasksCalls, now, startedAt>>

\* the instant at which the next timer is due
NextDue == IF timeout = "pending" THEN timeoutAt ELSE nextTick

\* the clock moves to the next instant at which a timer is due
AdvanceTime ==
  /\ alive
  /\ timeout = "pending" \/ (schedules > 0 /\ runsStarted < MaxRuns)
  /\ now < NextDue
  /\ now' = NextDue
  /\ UNCHANGED <<storeVars, procVars, appVars, timeout, timeoutAt,
                 schedules, capturedWin, nextTick, startTasksCalls,
                 startedAt, runVars>>

\* ---- one launch of the application that obtained the lock
Init ==
  /\ InitCommon
  /\ proc = [p \in Procs |-> IF p = Main THEN "running" ELSE "off"]
  /\ initPc = [p \in Procs |-> IF p = Main THEN "open" ELSE "off"]
  /\ gotTheLock = [p \in Procs |-> p = Main]
  /\ isDevelopment \in BOOLEAN
  /\ isDarwin \in BOOLEAN
  /\ now \in StartOffsets
  /\ startedAt = now
  /\ fetchLimit = 0

Next ==
  \/ DbOpen(Main)
  \/ CreateSchema(Main)
  \/ SelectSettings(Main)
  \/ InsertDefaults(Main)
  \/ AppReady
  \/ CreateWindowFinish
  \/ Activate
  \/ SecondInstance
  \/ ReadyToShow
  \/ TrayClick
  \/ Minimize
  \/ \E w \in windows : CloseWindow(w)
  \/ BeforeQuit
  \/ TrayQuit
  \/ QuitCancelled
  \/ ProcessExit
  \/ StartupTimeout
  \/ CronTick
  \/ AdvanceTime
  \/ RunFinish

Spec == Init /\ [][Next]_vars

\* ---- the pipeline of a launched application: the state Spec reaches once
\* the store is initialised and the whenReady handler has run in a packaged
\* build, with a remote host that has instances to report
InitSync ==
  /\ settings = <<DefaultSettings>>
  /\ instances = <<>>
  /\ proc = [p \in Procs |-> IF p = Main THEN "running" ELSE "off"]
  /\ initPc = [p \in Procs |-> IF p = Main THEN "done" ELSE "off"]
  /\ dbErr = [p \in Procs |-> "none"]
  /\ rowsSeen = [p \in Procs |-> IF p = Main THEN 0 ELSE -1]
  /\ gotTheLock = [p \in Procs |-> p = Main]
  /\ inserts = 1
  /\ isDevelopment = FALSE
  /\ isDarwin = FALSE
  /\ ready = TRUE
  /\ creating = 0
  /\ windows = {1}
  /\ winCount = 1
  /\ mainWindow = 1
  /\ hidden = TRUE
  /\ beforeQuitOn = TRUE
  /\ isQuiting = FALSE
  /\ quitting = FALSE
  /\ timeout = "pending"
  /\ now \in StartOffsets
  /\ startedAt = now
  /\ timeoutAt = now + Delay
  /\ schedules = 0
  /\ capturedWin = 0
  /\ nextTick = 0
  /\ startTasksCalls = 0
  /\ runs = {}
  /\ runsStarted = 0
  /\ triggers = <<>>
  /\ fetchLimit = MaxFetch
  /\ InitRecon

NextSync ==
  \/ StartupTimeout
  \/ CronTick
  \/ AdvanceTime
  \/ RunStep
  \/ RunFinish

SpecSync == InitSync /\ [][NextSync]_vars

\* ============================================================ properties

\* the i-th GetInstances call was made by the cron callback
IsTick(i) == triggers[i][1] = "tick"
\* the instant of the i-th GetInstances call
At(i) == triggers[i][2]

\* C1: at most one pipeline run (GetInstances invocation) is in flight at
\* any time; a tick that fires during a run starts no second run.
C1_AtMostOneRunInFlight == Cardinality(runs) <= 1

\* C2: a failure of a pipeline run, the startup run made by StartTasks
\* included, does not reach the timer: once StartTasks has run, the cron
\* schedule is registered and the next tick fires.
C2_FailureKeepsTimer == startTasksCalls > 0 => schedules > 0

\* C3: once the startup delay has expired, the startup run has been made
\* exactly once by StartTasks, whatever the state of the main window at
\* that instant.
C3_StartupRunHappens ==
  timeout = "fired" =>
    /\ startTasksCalls = 1
    /\ Len(triggers) >= 1
    /\ triggers[1][1] = "startup"

\* C4 as stated: the k-th recurring tick comes k periods of 15 minutes
\* after process start, whatever the wall clock at start.
C4_TicksFromProcessStart ==
  \A i \in 1..Len(triggers) :
    IsTick(i) => At(i) = startedAt + (i - 1) * Period

\* C4 as amended: recurring ticks come at the wall-clock instants whose
\* minute is divisible by 15; the first comes at the first such instant
\* after StartTasks registered the schedule, so at most 15 minutes after
\* the startup run, and every later tick 15 minutes after the previous one,
\* whatever the duration of the runs.
C4_TicksOnQuarterHours ==
  \A i \in 1..Len(triggers) :
    IsTick(i) =>
      /\ At(i) % Period = 0
      /\ i >= 2
      /\ IF IsTick(i - 1)
         THEN At(i) - At(i - 1) = Period
         ELSE At(i) - At(i - 1) <= Period

\* C4 witness: a run is still in flight when the second tick comes, and the
\* first tick came less than one period after the startup run.
C4_Witness ==
  /\ Len(triggers) >= 3
  /\ IsTick(2) /\ IsTick(3)
  /\ At(2) - At(1) < Period
  /\ runs # {}

\* C5: once a quit has been initiated ('before-quit' emitted by app.quit(),
\* the tray Quit action included) no pipeline run is started any more,
\* neither by a cron tick nor by the pending startup timeout.
C5_NoRunAfterQuit == [][quitting => runsStarted' = runsStarted]_vars

\* C6: once an initialisation of the store has completed, the settings
\* table holds exactly one row, for any sequence of launches.
C6_OneSettingsRow ==
  (\E p \in Procs : initPc[p] = "done") => Len(settings) = 1

\* C7: initialisation inserts the default row into an empty settings table
\* and inserts nothing into a table that has a row, so that over all the
\* launches the defaults are written exactly once and every row present is
\* the one written then, with extractMsi still 0.
C7_DefaultsWrittenOnce ==
  (\E p \in Procs : initPc[p] = "done") =>
    /\ inserts = 1
    /\ \A i \in 1..Len(settings) : settings[i].extractMsi = 0

\* C8: when the database could not be opened or the schema could not be
\* created, no pipeline run is ever started.
C8_InitFailureStopsPipeline == dbErr[Main] # "none" => runsStarted = 0

\* C9: StartTasks is executed at most once and at most one cron schedule
\* exists, whatever windows are closed and created again.
C9_ArmedAtMostOnce == startTasksCalls <= 1 /\ schedules <= 1

\* C9 witness: the schedule is armed and the window it was armed with has
\* since been replaced by one created through 'activate'.
C9_Witness ==
  /\ schedules = 1
  /\ winCount >= 2
  /\ mainWindow # 0
  /\ mainWindow # capturedWin

\* C10: no two rows of the instances table share an identity key.
C10_UniqueIdentity ==
  \A i, j \in 1..Len(instances) :
    i # j => instances[i].id # instances[j].id

\* C10 witness: two runs are in flight together and both identity keys are
\* stored.
C10_Witness ==
  /\ Cardinality(runs) >= 2
  /\ Len(instances) = Cardinality(InstanceIds)

C12_RunsAfterInit == runsStarted > 0 => initPc[Main] = "done"

\* C13: when the settings query fails, the callback ends in a handled
\* error outcome: no unhandled exception and no default row inserted.
C13_QueryErrorHandled ==
  \A p \in Procs :
    (initPc[p] \notin {"off", "open", "schema", "select"} /\ rowsSeen[p] < 0)
      => initPc[p] = "failed"

\* C14: the window handed to GetInstances exists when the run is triggered.
C14_RunWindowLive ==
  [][\A r \in runs' \ runs : r.win \in windows]_vars

\* the step is the tray Quit action destroying the window in mainWindow
TrayQuitStep ==
  /\ ~quitting /\ quitting'
  /\ windows' = windows \ {mainWindow}

\* C15: while isQuiting is not set a close request closes no window and
\* only hides the main window, so a window disappears and mainWindow
\* becomes null only once isQuiting is set or by the tray Quit action;
\* isQuiting is never reset, and once it is set a close request closes the
\* window.
C15_CloseToTray ==
  [][/\ (windows' # windows /\ windows' \subseteq windows)
          => (isQuiting \/ TrayQuitStep)
     /\ (mainWindow # 0 /\ mainWindow' = 0) => (isQuiting \/ TrayQuitStep)
     /\ isQuiting => isQuiting'
     /\ \A w \in windows :
          CloseWindow(w) =>
            IF isQuiting
            THEN w \notin windows' /\ mainWindow' = 0
            ELSE /\ windows' = windows
                 /\ mainWindow' = mainWindow
                 /\ (mainWindow # 0 => hidden')]_vars

\* C15 witness: a quit was initiated and cancelled, and a later close
\* request closed the window: the process lives on without a window.
C15_Witness ==
  /\ alive /\ isQuiting /\ ~quitting
  /\ winCount >= 1 /\ windows = {} /\ mainWindow = 0

====
